---- MODULE Spec2Model ----
(***************************************************************************)
(* Model of src/app.py: the Streamlit chat script of the Butterfly DIY     *)
(* assistant and its responder answer_query_with_confidence_2.             *)
(*                                                                         *)
(* Text is a sequence of string tokens (Python str); "" is <<>>.           *)
(* Scores are hundredths (0.5 is 50).  An optional value is a sequence of  *)
(* length 0 (None / not yet assigned) or 1.                                *)
(***************************************************************************)
EXTENDS Integers, Sequences, FiniteSets, TLC

VARIABLES
    messages,          \* st.session_state.messages (contents of that list)
    pc,                \* position of the script run
    interactions,      \* number of user interactions so far
    user_input,        \* script: user_input (None or the submitted text)
    embedding,         \* responder: embedding (None until the call returned)
    results,           \* responder: results.matches (None until returned)
    best_score,        \* best_score (0.0 until computed)
    context_texts,     \* context_texts ([] until computed)
    fallback_response, \* fallback_response ("" until built)
    llm_prompt,        \* which list object the name llm_prompt is bound to
    prompt_list,       \* contents of the list object created at line 78
    gate,              \* branch taken at line 96
    sent,              \* messages= argument of the chat completion request
    answer,            \* answer returned by the responder
    calls,             \* collaborator calls issued by this run, in order
    raised,            \* collaborator call whose exception ended the run
    panel              \* what the Debug Info expander rendered

vars == <<messages, pc, interactions, user_input, embedding, results,
          best_score, context_texts, fallback_response, llm_prompt,
          prompt_list, gate, sent, answer, calls, raised, panel>>

----------------------------------------------------------------------------
(* Bounds *)
MaxMatches == 2
MaxInteractions == 2

(* Program constants *)
Threshold == 50
MaxHistoryTurns == 10
TopK == 5
PanelThreshold == 75

None == <<>>
Some(v) == <<v>>

Min(a, b) == IF a < b THEN a ELSE b

----------------------------------------------------------------------------
(* Text helpers: str.join and the `in` substring test *)

RECURSIVE Join(_, _)
Join(sep, parts) ==
    IF Len(parts) = 0 THEN <<>>
    ELSE IF Len(parts) = 1 THEN parts[1]
    ELSE parts[1] \o sep \o Join(sep, Tail(parts))

IsSubstring(s, t) ==
    \E i \in 0..(Len(t) - Len(s)) : SubSeq(t, i + 1, i + Len(s)) = s

(* dict.get(key, default) *)
Get(md, key, default) == IF key \in DOMAIN md THEN md[key] ELSE default

----------------------------------------------------------------------------
(* Module-level values of app.py *)

MENTOR_STYLE_INSTRUCTION ==
    <<"You are a friendly mentor helping kids and parents with Butterfly Fields DIY kits. ",
      "Always explain things in a clear, step-by-step way, simple enough for a child but also helpful for parents. ",
      "Keep your tone encouraging and supportive, like a teacher guiding a curious student. ",
      "Give answers in short, bite-sized pieces (2-4 sentences max). ",
      "Whenever possible, use simple bullets or numbered steps (1, 2, 3). ",
      "If the instruction manuals provide the answer, use only them to give your answer. ",
      "Otherwise, say you don't know. ">>

KNOWN_KITS ==
    <<"Fun With Magnets",
      "Components of food",
      "Integers Positive and Negative",
      "Separation of substances",
      "Mensuration - Area perimeter",
      "Motion and measurement of distance",
      "India Natural Resources Minerals and Rocks",
      "Journey of a water drop",
      "Practical Geometry Constructions",
      "Numbers Factors Multiples">>

kit_list == Join(<<"\n">>, [i \in 1..Len(KNOWN_KITS) |-> <<"- ", KNOWN_KITS[i]>>])

FallbackText ==
    <<"Sorry, I don't see that in the Butterfly Fields manuals.  \n",
      "Could you tell me which kit or activity you mean?  \n",
      "\nHere are some kits I can answer about:\n">> \o kit_list

Message(role, content) == [role |-> role, content |-> content]

----------------------------------------------------------------------------
(* Inputs: what the user types and what the collaborators answer *)

Queries ==
    { <<"How many magnets are in the kit?">>,
      <<"Where does the water drop go?">> }

Scores == {0, 20, 50, 60, 80}

Metadatas ==
    { [kit_title |-> "Fun With Magnets", activity_title |-> "Magnet maze",
       chunk_type |-> "materials", text_content |-> <<"Contains 10 magnets.">>],
      [kit_title |-> "Journey of a water drop", activity_title |-> "Water cycle",
       chunk_type |-> "steps",
       text_content |-> <<"Heat the water.", "\n", "Watch the steam rise.">>],
      [kit_title |-> "Fun With Magnets", activity_title |-> "Magnet maze",
       chunk_type |-> "overview"] }

Matches == [score : Scores, metadata : Metadatas]

(* index.query returns at most top_k matches, ranked by descending score *)
SearchResults ==
    UNION { { r \in [1..n -> Matches] :
                \A i \in 1..(n - 1) : r[i].score >= r[i + 1].score }
            : n \in 0..Min(MaxMatches, TopK) }

ChatOutputs ==
    { <<"The kit has 10 magnets.">>,
      <<"Happy to help! ">> \o FallbackText }

----------------------------------------------------------------------------
(* Pure pieces of answer_query_with_confidence_2 *)

BestScore(matches) == IF Len(matches) > 0 THEN matches[1].score ELSE 0

ContextTextsReversed(matches) ==
    [i \in 1..Len(matches) |->
        Get(matches[Len(matches) + 1 - i].metadata, "text_content", <<>>)]

ContextTexts(matches) ==
    [i \in 1..Len(matches) |-> Get(matches[i].metadata, "text_content", <<>>)]

ContextMessage(texts) ==
    Message("user",
            <<"Relevant context from instruction manuals:\n">>
                \o Join(<<"\n\n">>, texts))

GateBranch(score, threshold) ==
    IF score >= threshold THEN "context" ELSE "fallback"

GateMessageMerged(score, threshold, texts, fallback) ==
    IF GateBranch(score, threshold) = "context"
    THEN ContextMessage(texts)
    ELSE Message("user", fallback)

GateMessage(score, threshold, texts, fallback) ==
    IF GateBranch(score, threshold) = "context"
    THEN ContextMessage(texts)
    ELSE Message("assistant", fallback)

(* llm_prompt = chat_history would bind the name to the caller's list *)
AliasedList == "messages"

(* llm_prompt = []  creates a list object of its own *)
NewList == "prompt_list"

Deref(ref) == IF ref = "messages" THEN messages ELSE prompt_list

(* The f-string format :.4f of a score *)
Format4f(score) == [int |-> score \div 100, frac4 |-> (score % 100) * 100]

DebugPanel(query, score, chunks, fallback) ==
    IF score >= PanelThreshold
    THEN [user_query |-> query, score |-> Format4f(score),
          shown |-> "Retrieved Context Chunks", chunks |-> chunks,
          fallback |-> <<>>]
    ELSE [user_query |-> query, score |-> Format4f(score),
          shown |-> "Fallback Triggered", chunks |-> <<>>,
          fallback |-> fallback]

----------------------------------------------------------------------------
(* The script is not running: the page waits for the user *)
Waiting == pc \in {"rendered", "error"}

(* State of the page after a script run without input and with the session *)
(* list holding h: the debug variables keep their initial values           *)
Rendered(h) ==
    /\ messages = h
    /\ pc = "rendered"
    /\ interactions = 0
    /\ user_input = None
    /\ embedding = None
    /\ results = None
    /\ best_score = 0
    /\ context_texts = <<>>
    /\ fallback_response = <<>>
    /\ llm_prompt = "unbound"
    /\ prompt_list = <<>>
    /\ gate = "none"
    /\ sent = None
    /\ answer = None
    /\ calls = <<>>
    /\ raised = "none"
    /\ panel = Some(DebugPanel(None, 0, <<>>, <<>>))

Init == Rendered(<<>>)

(* The user submits q in the chat input: the script reruns, lines 128-146 *)
ChatInput(q) ==
    /\ Waiting
    /\ interactions < MaxInteractions
    /\ interactions' = interactions + 1
    /\ user_input' = Some(q)
    /\ best_score' = 0
    /\ context_texts' = <<>>
    /\ fallback_response' = <<>>
    /\ embedding' = None
    /\ results' = None
    /\ llm_prompt' = "unbound"
    /\ prompt_list' = <<>>
    /\ gate' = "none"
    /\ sent' = None
    /\ answer' = None
    /\ calls' = <<>>
    /\ raised' = "none"
    /\ panel' = None
    /\ pc' = "embed"
    /\ UNCHANGED messages

(* client.embeddings.create returns *)
Embed ==
    /\ pc = "embed"
    /\ calls' = Append(calls, "embed")
    /\ embedding' = Some([model |-> "text-embedding-3-small", input |-> user_input[1]])
    /\ pc' = "search"
    /\ UNCHANGED <<messages, interactions, user_input, results, best_score,
                   context_texts, fallback_response, llm_prompt, prompt_list,
                   gate, sent, answer, raised, panel>>

(* client.embeddings.create raises: the exception ends the script run *)
EmbedFails ==
    /\ pc = "embed"
    /\ calls' = Append(calls, "embed")
    /\ raised' = "embed"
    /\ pc' = "error"
    /\ UNCHANGED <<messages, interactions, user_input, embedding, results,
                   best_score, context_texts, fallback_response, llm_prompt,
                   prompt_list, gate, sent, answer, panel>>

(* index.query returns r; lines 72-73 *)
Search(r) ==
    /\ pc = "search"
    /\ calls' = Append(calls, "search")
    /\ results' = Some(r)
    /\ best_score' = BestScore(r)
    /\ context_texts' = ContextTexts(r)
    /\ pc' = "build"
    /\ UNCHANGED <<messages, interactions, user_input, embedding,
                   fallback_response, llm_prompt, prompt_list, gate, sent,
                   answer, raised, panel>>

SearchFailsSwallowed ==
    /\ pc = "search"
    /\ calls' = Append(calls, "search")
    /\ raised' = "search"
    /\ answer' = Some(FallbackText)
    /\ pc' = "save"
    /\ UNCHANGED <<messages, interactions, user_input, embedding, results,
                   best_score, context_texts, fallback_response, llm_prompt,
                   prompt_list, gate, sent, panel>>

SearchFails ==
    /\ pc = "search"
    /\ calls' = Append(calls, "search")
    /\ raised' = "search"
    /\ pc' = "error"
    /\ UNCHANGED <<messages, interactions, user_input, embedding, results,
                   best_score, context_texts, fallback_response, llm_prompt,
                   prompt_list, gate, sent, answer, panel>>

(* Lines 78-105: the prompt is assembled in the list llm_prompt names *)
BuildPrompt ==
    /\ pc = "build"
    /\ LET ref == NewList
           items == <<Message("system", MENTOR_STYLE_INSTRUCTION)>>
                      \o messages
                      \o <<GateMessage(best_score, Threshold, context_texts, FallbackText),
                           Message("user", user_input[1])>>
       IN /\ llm_prompt' = ref
          /\ prompt_list' = IF ref = "prompt_list" THEN items ELSE prompt_list
          /\ messages' = IF ref = "messages" THEN messages \o items ELSE messages
    /\ fallback_response' = FallbackText
    /\ gate' = GateBranch(best_score, Threshold)
    /\ pc' = "generate"
    /\ UNCHANGED <<interactions, user_input, embedding, results, best_score,
                   context_texts, sent, answer, calls, raised, panel>>

GenerateTwice(out) ==
    /\ pc = "generate"
    /\ calls' = calls \o <<"chat", "chat">>
    /\ sent' = Some(Deref(llm_prompt))
    /\ answer' = Some(out)
    /\ pc' = "save"
    /\ UNCHANGED <<messages, interactions, user_input, embedding, results,
                   best_score, context_texts, fallback_response, llm_prompt,
                   prompt_list, gate, raised, panel>>

(* client.chat.completions.create returns out; line 114 returns it *)
Generate(out) ==
    /\ pc = "generate"
    /\ calls' = Append(calls, "chat")
    /\ sent' = Some(Deref(llm_prompt))
    /\ answer' = Some(out)
    /\ pc' = "save"
    /\ UNCHANGED <<messages, interactions, user_input, embedding, results,
                   best_score, context_texts, fallback_response, llm_prompt,
                   prompt_list, gate, raised, panel>>

GenerateFails ==
    /\ pc = "generate"
    /\ calls' = Append(calls, "chat")
    /\ sent' = Some(Deref(llm_prompt))
    /\ raised' = "chat"
    /\ pc' = "error"
    /\ UNCHANGED <<messages, interactions, user_input, embedding, results,
                   best_score, context_texts, fallback_response, llm_prompt,
                   prompt_list, gate, answer, panel>>

SaveAnswerOnly ==
    /\ pc = "save"
    /\ messages' = Append(messages, Message("assistant", answer[1]))
    /\ pc' = "panel"
    /\ UNCHANGED <<interactions, user_input, embedding, results, best_score,
                   context_texts, fallback_response, llm_prompt, prompt_list,
                   gate, sent, answer, calls, raised, panel>>

(* Lines 155-159: the caller stores the exchange *)
Save ==
    /\ pc = "save"
    /\ messages' = messages \o <<Message("user", user_input[1]),
                                 Message("assistant", answer[1])>>
    /\ pc' = "panel"
    /\ UNCHANGED <<interactions, user_input, embedding, results, best_score,
                   context_texts, fallback_response, llm_prompt, prompt_list,
                   gate, sent, answer, calls, raised, panel>>

(* Lines 161-172: the Debug Info expander *)
Debug ==
    /\ pc = "panel"
    /\ panel' = Some(DebugPanel(user_input, best_score, context_texts,
                                fallback_response))
    /\ pc' = "rendered"
    /\ UNCHANGED <<messages, interactions, user_input, embedding, results,
                   best_score, context_texts, fallback_response, llm_prompt,
                   prompt_list, gate, sent, answer, calls, raised>>

(* Lines 123-125 and the rerun they ask for: no input, initial debug values *)
Reset ==
    /\ Waiting
    /\ interactions < MaxInteractions
    /\ interactions' = interactions + 1
    /\ messages' = <<>>
    /\ user_input' = None
    /\ embedding' = None
    /\ results' = None
    /\ best_score' = 0
    /\ context_texts' = <<>>
    /\ fallback_response' = <<>>
    /\ llm_prompt' = "unbound"
    /\ prompt_list' = <<>>
    /\ gate' = "none"
    /\ sent' = None
    /\ answer' = None
    /\ calls' = <<>>
    /\ raised' = "none"
    /\ panel' = Some(DebugPanel(None, 0, <<>>, <<>>))
    /\ pc' = "rendered"

Next ==
    \/ \E q \in Queries : ChatInput(q)
    \/ Embed
    \/ EmbedFails
    \/ \E r \in SearchResults : Search(r)
    \/ SearchFails
    \/ BuildPrompt
    \/ \E out \in ChatOutputs : Generate(out)
    \/ GenerateFails
    \/ Save
    \/ Debug
    \/ Reset

Spec == Init /\ [][Next]_vars

(* A session that already holds five stored exchanges *)
Ordinals == <<"one", "two", "three", "four", "five">>

RECURSIVE Exchanges(_)
Exchanges(n) ==
    IF n = 0 THEN <<>>
    ELSE Exchanges(n - 1)
           \o <<Message("user", <<"question", Ordinals[n]>>),
                Message("assistant", <<"answer", Ordinals[n]>>)>>

InitLong == Rendered(Exchanges(5))

SpecLong == InitLong /\ [][Next]_vars

----------------------------------------------------------------------------
(* Helpers of the properties *)

(* The message the gate put in the prompt, and what follows its heading *)
PromptOf == Deref(llm_prompt)
GateTurn == PromptOf[Len(PromptOf) - 1]
ContextBlock == Tail(GateTurn.content)

(* str.split on the blank-line separator *)
RECURSIVE SplitBlocks(_)
SplitBlocks(text) ==
    IF \A i \in 1..Len(text) : text[i] # "\n\n" THEN <<text>>
    ELSE LET i == CHOOSE k \in 1..Len(text) :
                     /\ text[k] = "\n\n"
                     /\ \A j \in 1..(k - 1) : text[j] # "\n\n"
         IN <<SubSeq(text, 1, i - 1)>> \o SplitBlocks(SubSeq(text, i + 1, Len(text)))

TextOf(m) ==
    IF "text_content" \in DOMAIN m.metadata THEN m.metadata.text_content ELSE <<>>

LabeledBlock(m) ==
    <<"[", m.metadata.kit_title, "] ", m.metadata.activity_title,
      " (", m.metadata.chunk_type, "): ">> \o TextOf(m)

IsPrefix(s, t) == Len(s) <= Len(t) /\ SubSeq(t, 1, Len(s)) = s

InSeq(x, s) == \E i \in 1..Len(s) : s[i] = x

ResponderRunning == pc \in {"embed", "search", "build", "generate"}

(* The chat request has been issued and the session list is still the one *)
(* the responder was called with                                           *)
ChatIssued == sent # None /\ (pc = "save" \/ (pc = "error" /\ raised = "chat"))

----------------------------------------------------------------------------
(* C1: whenever the responder returns with best_score < threshold, the     *)
(* returned answer contains the fixed fallback text verbatim.              *)
C1_FallbackReturned ==
    (answer # None /\ results # None /\ best_score < Threshold)
        => IsSubstring(FallbackText, answer[1])

(* C2 as stated: with best_score >= threshold the context block of the     *)
(* prompt holds one block per match, in search order, each labeled with    *)
(* kit title, activity title and chunk type.                               *)
C2_LabeledBlocks ==
    (gate # "none" /\ best_score >= Threshold)
        => SplitBlocks(ContextBlock)
             = [i \in 1..Len(results[1]) |-> LabeledBlock(results[1][i])]

(* C2 amended: with best_score >= threshold the context block of the       *)
(* prompt holds one block per match, in search order, separated by blank   *)
(* lines; each block is the bare text_content of its match (empty when the *)
(* match has none), without any label.                                     *)
C2_ContextBlocks ==
    (gate # "none" /\ best_score >= Threshold)
        => /\ GateTurn.role = "user"
           /\ SplitBlocks(ContextBlock)
                = [i \in 1..Len(results[1]) |-> TextOf(results[1][i])]

C2_Witness ==
    /\ pc = "generate"
    /\ best_score = Threshold
    /\ Len(results[1]) = 2
    /\ TextOf(results[1][1]) # TextOf(results[1][2])
    /\ TextOf(results[1][2]) = <<>>

(* C3: when the responder is called with more than max_history_turns       *)
(* turns, the history part of the prompt sent has length 6: one system     *)
(* summary turn, then the 5 most recent turns unchanged and in order.      *)
C3_HistoryCompacted ==
    (ChatIssued /\ Len(messages) > MaxHistoryTurns)
        => LET p == sent[1]
               h == SubSeq(p, 2, Len(p) - 2)
           IN /\ Len(h) = 6
              /\ h[1].role = "system"
              /\ SubSeq(h, 2, 6) = SubSeq(messages, Len(messages) - 4, Len(messages))

(* C4 as stated: the sequence sent is the system instruction, the history  *)
(* verbatim, then exactly one final user turn holding both the context     *)
(* block and the query; no assistant turn outside the history.             *)
C4_SingleFinalTurn ==
    ChatIssued
        => LET p == sent[1]
               n == Len(messages)
           IN /\ Len(p) = n + 2
              /\ p[1] = Message("system", MENTOR_STYLE_INSTRUCTION)
              /\ SubSeq(p, 2, n + 1) = messages
              /\ p[Len(p)].role = "user"
              /\ IsSubstring(user_input[1], p[Len(p)].content)
              /\ IsSubstring(Join(<<"\n\n">>, context_texts), p[Len(p)].content)
              /\ \A i \in (n + 2)..Len(p) : p[i].role # "assistant"

(* C4 amended: the sequence sent is the system instruction, the history    *)
(* verbatim and in order, then one gate turn (a user turn holding the      *)
(* context block when best_score >= threshold, otherwise an assistant turn *)
(* holding the fallback text), then one final user turn holding exactly    *)
(* the query; nothing else.                                                *)
C4_MessageSequence ==
    ChatIssued
        => LET p == sent[1]
               n == Len(messages)
           IN /\ Len(p) = n + 3
              /\ p[1] = Message("system", MENTOR_STYLE_INSTRUCTION)
              /\ \A i \in 1..n : p[i + 1] = messages[i]
              /\ p[n + 2].role = (IF best_score >= Threshold THEN "user" ELSE "assistant")
              /\ best_score >= Threshold
                    => /\ Head(p[n + 2].content) = "Relevant context from instruction manuals:\n"
                       /\ \A i \in 1..Len(results[1]) :
                              IsSubstring(TextOf(results[1][i]), Tail(p[n + 2].content))
              /\ best_score < Threshold => p[n + 2].content = FallbackText
              /\ p[n + 3] = Message("user", user_input[1])

C4_Witness ==
    /\ ChatIssued
    /\ Len(messages) = 2
    /\ messages[1].content # user_input[1]
    /\ best_score < Threshold
    /\ results[1] # <<>>

(* C5: no step of the responder, on either branch of the gate and whether  *)
(* it returns or fails, changes the caller's history list.                 *)
C5_HistoryNotMutated ==
    [][ResponderRunning => messages' = messages]_vars

C5_Witness ==
    /\ pc = "error"
    /\ raised = "chat"
    /\ gate = "context"
    /\ Len(messages) = 2
    /\ Len(prompt_list) = 5

(* C6: once a collaborator call has failed the run is in the error         *)
(* outcome: no answer (in particular no fallback text) is returned, the    *)
(* failed call was issued once, and it is the last call of the run.        *)
C6_FailureSurfaced ==
    raised # "none"
        => /\ pc = "error"
           /\ answer = None
           /\ panel = None
           /\ calls[Len(calls)] = raised
           /\ Cardinality({i \in 1..Len(calls) : calls[i] = raised}) = 1
           /\ IsPrefix(calls, <<"embed", "search", "chat">>)

C6_Witness ==
    /\ pc = "error"
    /\ raised = "search"
    /\ calls = <<"embed", "search">>
    /\ Len(messages) = 2

(* The outcome of the run as the caller presents it, and the outcome the   *)
(* same query and chat output give for the search result r                 *)
OutcomeShown ==
    [gate_turn |-> GateTurn, answer |-> answer[1],
     fallback |-> fallback_response, panel |-> panel[1]]

OutcomeFor(r) ==
    [gate_turn |-> GateMessage(BestScore(r), Threshold, ContextTexts(r), FallbackText),
     answer |-> answer[1],
     fallback |-> FallbackText,
     panel |-> DebugPanel(user_input, BestScore(r), ContextTexts(r), FallbackText)]

(* C7: with an empty match list best_score is 0 and the outcome differs    *)
(* from the outcome of every non-empty result whose top score is below the *)
(* threshold.                                                              *)
C7_NoMatchDistinguished ==
    (pc = "rendered" /\ results = Some(<<>>))
        => /\ best_score = 0
           /\ \A r \in SearchResults :
                 (r # <<>> /\ BestScore(r) < Threshold) => OutcomeShown # OutcomeFor(r)

(* C8: the calls of a run are a prefix of embedding, search, chat; the     *)
(* search follows the returned embedding, the chat call follows the        *)
(* returned search and the evaluated gate, and a run that returns has made *)
(* exactly these three calls, the chat call once.                          *)
C8_CallOrder ==
    /\ IsPrefix(calls, <<"embed", "search", "chat">>)
    /\ InSeq("search", calls) => embedding # None
    /\ InSeq("chat", calls) => (results # None /\ gate # "none")
    /\ answer # None => calls = <<"embed", "search", "chat">>

C8_Witness ==
    /\ pc = "save"
    /\ calls = <<"embed", "search", "chat">>
    /\ gate = "fallback"

(* C9: the session list is always a sequence of (user, assistant) pairs;   *)
(* a step either leaves it alone, or appends the input and its answer to   *)
(* the unchanged earlier entries, or (reset) empties it; a failing run     *)
(* appends nothing.                                                        *)
C9_Pairs ==
    /\ Len(messages) % 2 = 0
    /\ \A i \in 1..Len(messages) :
          messages[i].role = (IF i % 2 = 1 THEN "user" ELSE "assistant")

C9_Step ==
    /\ \/ messages' = messages
       \/ /\ pc = "save"
          /\ messages' = messages \o <<Message("user", user_input[1]),
                                       Message("assistant", answer[1])>>
       \/ /\ Waiting
          /\ user_input' = None
          /\ messages' = <<>>
    /\ pc' = "error" => messages' = messages

C9_SessionPairs == []C9_Pairs /\ [][C9_Step]_vars

C9_Witness ==
    /\ pc = "error"
    /\ Len(messages) = 2
    /\ messages[1].content = user_input[1]

(* C10: for an answered query the panel reports Fallback Triggered exactly *)
(* when the responder took the fallback branch, and shows the chunks       *)
(* exactly when they were placed in the prompt.                            *)
C10_PanelAgreesWithGate ==
    (pc = "rendered" /\ user_input # None)
        => /\ (panel[1].shown = "Fallback Triggered") <=> (gate = "fallback")
           /\ (panel[1].shown = "Retrieved Context Chunks"
                  /\ panel[1].chunks = context_texts) <=> (gate = "context")

====
